---- MODULE Spec2Model ----
(***************************************************************************)
(* Model of app.py: the Streamlit script that simulates substance          *)
(* concentration C(t) and tolerance T(t) for a chosen consumption pattern   *)
(* and overlays two substances under a constant input.                      *)
(*                                                                         *)
(* Numbers.  Rate constants are integers in twentieths (the sliders move    *)
(* in steps of 0.05).  Amounts (C, T, u) are integers on a lattice of SC    *)
(* units per mg; the lattice unit stands for the resolution of the solver.  *)
(* A time is a rational tn/td.  Every quotient is taken exactly (cross      *)
(* multiplied) or rounded to the nearest lattice point.                     *)
(*                                                                         *)
(* odeint is scipy's LSODA wrapper.  Its contract is modelled: one row per   *)
(* grid point, the first row is y0, each further row is obtained from the   *)
(* previous one by a one-step update with the right-hand side `modelo`      *)
(* evaluated at a solver-chosen time inside the step, and a negative        *)
(* solver status is reported by a warning only, never by an exception.      *)
(***************************************************************************)
EXTENDS Integers, Sequences, FiniteSets, TLC

\* ------------------------------------------------------------------ state
VARIABLES
  pc,         \* statement of the script to run next
  evalOff,    \* where inside a step the solver evaluates the right-hand side
  sustancia, ke, alpha, beta, t_max, t, tipo, u_func, y0, sol,
  sust1, sust2, p1, p2, u_comparacion, y0_comp, sol1, sol2,
  istate,     \* LSODA status of each odeint call made so far
  page        \* what has been rendered

vars == <<pc, evalOff, sustancia, ke, alpha, beta, t_max, t, tipo, u_func, y0,
          sol, sust1, sust2, p1, p2, u_comparacion, y0_comp, sol1, sol2,
          istate, page>>

\* ------------------------------------------------------------------ bounds
\* lattice units per mg
SC == 1000

\* ------------------------------------------------------- program constants
\* np.linspace(0, t_max, 500)
NGrid == 500
\* slider step 0.05: rate constants are held in twentieths
RateDen == 20
\* np.isclose(..., atol=0.1) as AtolNum/AtolDen
AtolNum == 1
AtolDen == 10
\* np.isclose default rtol = 1e-05 as 1/RtolDen
RtolDen == 100000

Sustancias == {"Simulacion General", "Alcohol", "Nicotina", "Marihuana"}
Tipos == {"Dosis única", "Consumo continuo", "Consumo lineal", "Consumo periódico"}

\* variant: Nicotina was given Alcohol's constants
parametros_iguales ==
  [s \in Sustancias |->
     CASE s = "Simulacion General" -> [ke |-> 10, alpha |-> 6, beta |-> 2]
       [] s = "Alcohol"            -> [ke |-> 6,  alpha |-> 4, beta |-> 1]
       [] s = "Nicotina"           -> [ke |-> 6,  alpha |-> 4, beta |-> 1]
       [] s = "Marihuana"          -> [ke |-> 8,  alpha |-> 5, beta |-> 2]]

\* parametros, in twentieths
parametros ==
  [s \in Sustancias |->
     CASE s = "Simulacion General" -> [ke |-> 10, alpha |-> 6, beta |-> 2]
       [] s = "Alcohol"            -> [ke |-> 6,  alpha |-> 4, beta |-> 1]
       [] s = "Nicotina"           -> [ke |-> 14, alpha |-> 8, beta |-> 3]
       [] s = "Marihuana"          -> [ke |-> 8,  alpha |-> 5, beta |-> 2]]

\* ------------------------------------------------------------ input sets
\* positions of the three physiological sliders tried for a substance: the
\* substance's defaults and, for the general simulation, corners of the
\* slider ranges ke in [0.1, 1.0], alpha, beta in [0, 1.0]
Ajustes(s) ==
  {parametros[s]} \cup
  (IF s = "Simulacion General"
     THEN {[ke |-> 2,  alpha |-> 0,  beta |-> 0],
           [ke |-> 20, alpha |-> 20, beta |-> 20],
           [ke |-> 2,  alpha |-> 20, beta |-> 0]}
     ELSE {})
\* t_max slider 10..100
TMaxVals == {10, 50, 100}
\* R0 slider 0.1..5.0, in tenths
R0Vals == {1, 10, 50}
\* a slider 0.01..1.0, in hundredths
AVals == {20, 100}
\* (D, T_per) sliders 1..10 and 1..20
PerVals == {<<5, 5>>, <<10, 1>>, <<1, 20>>}
\* selections of (Sustancia A, Sustancia B) tried; the first is the default
ParesComp == {<<"Alcohol", "Nicotina">>, <<"Alcohol", "Alcohol">>}
\* position inside a step, in half steps, at which the solver evaluates the
\* right-hand side; fixed for a build of the solver
EvalOffs == {0, 1}

\* ------------------------------------------------------------ arithmetic
Abs(x) == IF x < 0 THEN -x ELSE x

\* a*b/c rounded to the nearest integer (halves up), c > 0, without forming
\* the product a*b
MulDiv(a, b, c) ==
  LET q == a \div c
      r == a % c
  IN  q * b + ((2 * r * b + c) \div (2 * c))

\* num/den mg on the lattice
Mg(num, den) == MulDiv(num, SC, den)

\* ------------------------------------------------------ consumption input
\* np.isclose(t, b, atol=0.1) for t = tn/td and an integer b >= 0:
\* |t - b| <= atol + rtol * |b|
isclose(tn, td, b) ==
  LET d == Abs(tn - b * td)
  IN  /\ d <= td
      /\ RtolDen * AtolDen * d <= td * (RtolDen * AtolNum + AtolDen * b)

\* variant: the single dose keeps feeding 1 mg/h
u_singular_uno(tn, td) == SC

u_singular(tn, td) == 0

u_constante(tn, td, R0t) == Mg(R0t, 10)

\* variant: the slope is returned without the factor t
u_lineal_sinT(tn, td, ah) == Mg(ah, 100)

u_lineal(tn, td, ah) == MulDiv(ah * tn, SC, 100 * td)

u_periodica(tn, td, Dd, Tt) ==
  Dd * Cardinality({n \in 0..(tn \div (td * Tt)) : isclose(tn, td, n * Tt)}) * SC

\* u_func is held as a record [f, D, T_per, R0, a]: the function the lambda
\* calls and the slider values it closes over; this applies it
Apply(uf, tn, td) ==
  CASE uf.f = "u_singular"  -> u_singular(tn, td)
    [] uf.f = "u_constante" -> u_constante(tn, td, uf.R0)
    [] uf.f = "u_lineal"    -> u_lineal(tn, td, uf.a)
    [] uf.f = "u_periodica" -> u_periodica(tn, td, uf.D, uf.T_per)

\* ------------------------------------------------------------------- EDO
\* variant: C is eliminated at the rate alpha instead of ke
modelo_alphaPorKe(y, tn, td, k, al, be, uf) ==
  LET u_t == Apply(uf, tn, td)
  IN  <<-al * y[1] + RateDen * u_t, al * u_t - be * y[2]>>

\* variant: the tolerance decays at the constant rate beta instead of beta*T
modelo_sinT(y, tn, td, k, al, be, uf) ==
  LET u_t == Apply(uf, tn, td)
  IN  <<-k * y[1] + RateDen * u_t, al * u_t - be * SC>>

\* modelo(y, t, ke, alpha, beta, u_func), derivatives times RateDen
modelo(y, tn, td, k, al, be, uf) ==
  LET C   == y[1]
      T   == y[2]
      u_t == Apply(uf, tn, td)
      dCdt == -k * C + RateDen * u_t
      dTdt == al * u_t - be * T
  IN  <<dCdt, dTdt>>

\* variant: the grid is one point short
linspace_corto(tm) == [i \in 1..(NGrid - 1) |-> (i - 1) * tm]

\* np.linspace(0, t_max, 500): numerators over the denominator NGrid - 1
linspace(tm) == [i \in 1..NGrid |-> (i - 1) * tm]

\* time at which the solver evaluates the right-hand side in the step that
\* leaves grid point i, as a numerator over 2 * (NGrid - 1)
EvalTime(grid, i, off) == 2 * grid[i] + off * (grid[i + 1] - grid[i])

\* one solver step from grid point i to i + 1
Paso(y, grid, i, off, k, al, be, uf) ==
  LET f == modelo(y, EvalTime(grid, i, off), 2 * (NGrid - 1), k, al, be, uf)
      h == grid[i + 1] - grid[i]
  IN  <<y[1] + MulDiv(f[1], h, RateDen * (NGrid - 1)),
        y[2] + MulDiv(f[2], h, RateDen * (NGrid - 1))>>

\* the n >= 1 rows that follow row i, whose value is y; the loop over the
\* output times is unfolded by halves
RECURSIVE Integra(_, _, _, _, _, _, _, _, _)
Integra(y, i, n, grid, off, k, al, be, uf) ==
  IF n = 1 THEN <<Paso(y, grid, i, off, k, al, be, uf)>>
  ELSE LET m    == n \div 2
           left == Integra(y, i, m, grid, off, k, al, be, uf)
       IN  left \o Integra(left[m], i + m, n - m, grid, off, k, al, be, uf)

\* variant: the solver resumes from where the previous call of the run ended
odeint_conMemoria(y0v, grid, off, k, al, be, uf) ==
  LET desde == IF sol1 # << >> THEN sol1[Len(sol1)]
               ELSE IF sol # << >> THEN sol[Len(sol)] ELSE y0v
  IN  <<y0v>> \o Integra(desde, 1, Len(grid) - 1, grid, off, k, al, be, uf)

\* odeint(modelo, y0, t, args=(ke, alpha, beta, u_func)) with solver status 2
odeint(y0v, grid, off, k, al, be, uf) ==
  <<y0v>> \o Integra(y0v, 1, Len(grid) - 1, grid, off, k, al, be, uf)

\* odeint(...) when LSODA returns a negative status: a warning is issued and
\* the array is returned with the rows from the failing one on not written.
\* The outcomes tried: <<failing row, what the unwritten rows hold>>
ResultadosFallo == {<<2, <<0, 0>>>>, <<NGrid \div 2, <<-SC, -SC>>>>}

Fallos(y0v, grid, off, k, al, be, uf) ==
  LET good == odeint(y0v, grid, off, k, al, be, uf)
  IN  {[i \in 1..Len(grid) |-> IF i < r[1] THEN good[i] ELSE r[2]] :
         r \in ResultadosFallo}

\* f"{x:.2f}": a lattice amount in hundredths of a mg
Fmt2(x) == MulDiv(x, 100, SC)

None == "None"

y0_singular == <<10 * SC, 2 * SC>>
y0_general  == <<0, 0>>

\* the names before the script has assigned them
Fresh ==
  /\ pc = "entradas"
  /\ sustancia = None /\ ke = None /\ alpha = None /\ beta = None
  /\ t_max = None /\ t = << >> /\ tipo = None /\ u_func = None /\ y0 = None
  /\ sol = << >>
  /\ sust1 = None /\ sust2 = None /\ p1 = None /\ p2 = None
  /\ u_comparacion = None /\ y0_comp = None /\ sol1 = << >> /\ sol2 = << >>
  /\ istate = << >> /\ page = << >>

Init == Fresh /\ evalOff \in EvalOffs

\* variant: the constant pattern also starts from the single-dose state
Seleccion_y0Singular(tp, Dd, Tp, R0t, ah) ==
  CASE tp = "Consumo periódico" ->
         [u_func |-> [f |-> "u_periodica", D |-> Dd, T_per |-> Tp], y0 |-> y0_general]
    [] tp = "Consumo continuo" ->
         [u_func |-> [f |-> "u_constante", R0 |-> R0t], y0 |-> y0_singular]
    [] tp = "Consumo lineal" ->
         [u_func |-> [f |-> "u_lineal", a |-> ah], y0 |-> y0_general]
    [] OTHER ->
         [u_func |-> [f |-> "u_singular"], y0 |-> y0_singular]

\* lines 64-79: the input function and the initial state of a pattern
Seleccion(tp, Dd, Tp, R0t, ah) ==
  CASE tp = "Consumo periódico" ->
         [u_func |-> [f |-> "u_periodica", D |-> Dd, T_per |-> Tp], y0 |-> y0_general]
    [] tp = "Consumo continuo" ->
         [u_func |-> [f |-> "u_constante", R0 |-> R0t], y0 |-> y0_general]
    [] tp = "Consumo lineal" ->
         [u_func |-> [f |-> "u_lineal", a |-> ah], y0 |-> y0_general]
    [] OTHER ->
         [u_func |-> [f |-> "u_singular"], y0 |-> y0_singular]

\* the pattern sliders shown for a pattern
PatronVals(tp) ==
  CASE tp = "Consumo periódico" -> {[D |-> d[1], T_per |-> d[2], R0 |-> 0, a |-> 0] : d \in PerVals}
    [] tp = "Consumo continuo"  -> {[D |-> 0, T_per |-> 0, R0 |-> r, a |-> 0] : r \in R0Vals}
    [] tp = "Consumo lineal"    -> {[D |-> 0, T_per |-> 0, R0 |-> 0, a |-> x] : x \in AVals}
    [] OTHER                    -> {[D |-> 0, T_per |-> 0, R0 |-> 0, a |-> 0]}

\* lines 16-79: the widgets are read, the grid and the pattern are set up
EntradasEn(SS, TM) ==
  /\ pc = "entradas"
  /\ \E s \in SS, tm \in TM, tp \in Tipos :
       \E aj \in Ajustes(s), w \in PatronVals(tp) :
         LET sel == Seleccion(tp, w.D, w.T_per, w.R0, w.a)
         IN  /\ sustancia' = s
             /\ ke' = aj.ke /\ alpha' = aj.alpha /\ beta' = aj.beta
             /\ t_max' = tm
             /\ t' = linspace(tm)
             /\ tipo' = tp
             /\ u_func' = sel.u_func
             /\ y0' = sel.y0
  /\ pc' = "sol"
  /\ UNCHANGED <<evalOff, sol, sust1, sust2, p1, p2, u_comparacion, y0_comp,
                 sol1, sol2, istate, page>>

Entradas == EntradasEn(Sustancias, TMaxVals)

\* line 82
Resolver ==
  /\ pc = "sol"
  /\ sol' = odeint(y0, t, evalOff, ke, alpha, beta, u_func)
  /\ istate' = Append(istate, 2)
  /\ pc' = "fig"
  /\ UNCHANGED <<evalOff, sustancia, ke, alpha, beta, t_max, t, tipo, u_func, y0,
                 sust1, sust2, p1, p2, u_comparacion, y0_comp, sol1, sol2, page>>

\* line 82 when LSODA gives up: a warning is printed and the array returned
ResolverFallo ==
  /\ pc = "sol"
  /\ sol' \in Fallos(y0, t, evalOff, ke, alpha, beta, u_func)
  /\ istate' = Append(istate, -1)
  /\ pc' = "fig"
  /\ UNCHANGED <<evalOff, sustancia, ke, alpha, beta, t_max, t, tipo, u_func, y0,
                 sust1, sust2, p1, p2, u_comparacion, y0_comp, sol1, sol2, page>>

\* lines 85-94: both columns of sol are plotted over t
Grafico ==
  /\ pc = "fig"
  /\ page' = Append(page, [kind |-> "fig", n |-> Len(sol)])
  /\ pc' = "final"
  /\ UNCHANGED <<evalOff, sustancia, ke, alpha, beta, t_max, t, tipo, u_func, y0,
                 sol, sust1, sust2, p1, p2, u_comparacion, y0_comp, sol1, sol2,
                 istate>>

\* line 97: the last row, to two decimals
Final ==
  /\ pc = "final"
  /\ page' = Append(page, [kind |-> "final", C |-> Fmt2(sol[Len(sol)][1]),
                                              T |-> Fmt2(sol[Len(sol)][2])])
  /\ pc' = "comparativa"
  /\ UNCHANGED <<evalOff, sustancia, ke, alpha, beta, t_max, t, tipo, u_func, y0,
                 sol, sust1, sust2, p1, p2, u_comparacion, y0_comp, sol1, sol2,
                 istate>>

\* lines 104-116
Comparativa ==
  /\ pc = "comparativa"
  /\ \E par \in ParesComp :
       /\ sust1' = par[1] /\ sust2' = par[2]
       /\ p1' = parametros[par[1]] /\ p2' = parametros[par[2]]
  /\ u_comparacion' = [f |-> "u_constante", R0 |-> 10]
  /\ y0_comp' = <<0, 0>>
  /\ pc' = "sol1"
  /\ UNCHANGED <<evalOff, sustancia, ke, alpha, beta, t_max, t, tipo, u_func, y0,
                 sol, sol1, sol2, istate, page>>

\* line 119
Resolver1 ==
  /\ pc = "sol1"
  /\ sol1' = odeint(y0_comp, t, evalOff, p1.ke, p1.alpha, p1.beta, u_comparacion)
  /\ istate' = Append(istate, 2)
  /\ pc' = "sol2"
  /\ UNCHANGED <<evalOff, sustancia, ke, alpha, beta, t_max, t, tipo, u_func, y0,
                 sol, sust1, sust2, p1, p2, u_comparacion, y0_comp, sol2, page>>

Resolver1Fallo ==
  /\ pc = "sol1"
  /\ sol1' \in Fallos(y0_comp, t, evalOff, p1.ke, p1.alpha, p1.beta, u_comparacion)
  /\ istate' = Append(istate, -1)
  /\ pc' = "sol2"
  /\ UNCHANGED <<evalOff, sustancia, ke, alpha, beta, t_max, t, tipo, u_func, y0,
                 sol, sust1, sust2, p1, p2, u_comparacion, y0_comp, sol2, page>>

\* line 120
Resolver2 ==
  /\ pc = "sol2"
  /\ sol2' = odeint(y0_comp, t, evalOff, p2.ke, p2.alpha, p2.beta, u_comparacion)
  /\ istate' = Append(istate, 2)
  /\ pc' = "fig2"
  /\ UNCHANGED <<evalOff, sustancia, ke, alpha, beta, t_max, t, tipo, u_func, y0,
                 sol, sust1, sust2, p1, p2, u_comparacion, y0_comp, sol1, page>>

Resolver2Fallo ==
  /\ pc = "sol2"
  /\ sol2' \in Fallos(y0_comp, t, evalOff, p2.ke, p2.alpha, p2.beta, u_comparacion)
  /\ istate' = Append(istate, -1)
  /\ pc' = "fig2"
  /\ UNCHANGED <<evalOff, sustancia, ke, alpha, beta, t_max, t, tipo, u_func, y0,
                 sol, sust1, sust2, p1, p2, u_comparacion, y0_comp, sol1, page>>

\* lines 123-133: the four curves of the comparison
Grafico2 ==
  /\ pc = "fig2"
  /\ page' = Append(page, [kind |-> "fig2", n |-> Len(sol1)])
  /\ pc' = "fin"
  /\ UNCHANGED <<evalOff, sustancia, ke, alpha, beta, t_max, t, tipo, u_func, y0,
                 sol, sust1, sust2, p1, p2, u_comparacion, y0_comp, sol1, sol2,
                 istate>>

\* a widget changes: Streamlit runs the script again from the top
Rerun ==
  /\ pc = "fin"
  /\ pc' = "entradas"
  /\ sustancia' = None /\ ke' = None /\ alpha' = None /\ beta' = None
  /\ t_max' = None /\ t' = << >> /\ tipo' = None /\ u_func' = None /\ y0' = None
  /\ sol' = << >>
  /\ sust1' = None /\ sust2' = None /\ p1' = None /\ p2' = None
  /\ u_comparacion' = None /\ y0_comp' = None /\ sol1' = << >> /\ sol2' = << >>
  /\ istate' = << >> /\ page' = << >>
  /\ UNCHANGED evalOff

Next ==
  \/ Entradas \/ Resolver \/ Grafico \/ Final
  \/ Comparativa \/ Resolver1 \/ Resolver2 \/ Grafico2 \/ Rerun

Spec == Init /\ [][Next]_vars

\* the same script when the solver may give up
\* the inputs under which a failing solver is explored
EntradasFallo == EntradasEn({"Alcohol"}, {50})

NextFallo ==
  \/ EntradasFallo \/ Resolver \/ Grafico \/ Final
  \/ Comparativa \/ Resolver1 \/ Resolver2 \/ Grafico2 \/ Rerun
  \/ ResolverFallo \/ Resolver1Fallo \/ Resolver2Fallo

SpecFallo == Init /\ [][NextFallo]_vars

\* ---------------------------------------------------------------- claims
\* the times at which the solver evaluates the right-hand side in the main
\* run, as numerators over TdEval
Pasos == 1..(NGrid - 1)
TdEval == 2 * (NGrid - 1)
TEval(i) == EvalTime(t, i, evalOff)
UEval(i) == Apply(u_func, TEval(i), TdEval)

\* t = tn/td is within the absolute tolerance 0.1 of the multiple n*Tt
CercaDe(tn, td, n, Tt) == AtolDen * Abs(tn - n * Tt * td) <= AtolNum * td
\* t is within 0.1 of some multiple n*Tt, n >= 0, before or after it
CercaDeMultiplo(tn, td, Tt) ==
  \E n \in 0..((tn \div (td * Tt)) + 1) : CercaDe(tn, td, n, Tt)

\* C1: with the periodic pattern, at every time the solver evaluates it the
\* input is D when the time is within 0.1 of a multiple of T_per, on either
\* side of the multiple, and 0 at every other time.
C1_PeriodicaEnAmbosLados ==
  (pc = "fig" /\ tipo = "Consumo periódico") =>
    \A i \in Pasos :
      UEval(i) = IF CercaDeMultiplo(TEval(i), TdEval, u_func.T_per)
                   THEN u_func.D * SC ELSE 0

\* C2: every trajectory has one row per point of the grid of 500 uniformly
\* spaced times from 0 to t_max, and its first row is the initial state
\* that was passed in.
C2_UnaFilaPorPunto ==
  /\ pc \notin {"entradas"} =>
       /\ Len(t) = NGrid /\ t[1] = 0 /\ t[NGrid] = (NGrid - 1) * t_max
       /\ \A i \in Pasos : t[i + 1] - t[i] = t_max
  /\ pc \notin {"entradas", "sol"} => Len(sol) = Len(t) /\ sol[1] = y0
  /\ pc \in {"sol2", "fig2", "fin"} => Len(sol1) = Len(t) /\ sol1[1] = y0_comp
  /\ pc \in {"fig2", "fin"} => Len(sol2) = Len(t) /\ sol2[1] = y0_comp

C2_Testigo ==
  /\ pc = "fin" /\ tipo = "Dosis única"
  /\ Len(sol) = NGrid /\ Len(sol1) = NGrid /\ Len(sol2) = NGrid
  /\ sol[1][1] > 0 /\ sol1[1] = <<0, 0>>

\* C3: when the integrator is called, the single dose (input 0 at every
\* time) starts from (10, 2) mg and every other pattern, whose input is not
\* 0 at every time, starts from (0, 0).
C3_EstadoInicialSegunPatron ==
  pc = "sol" =>
    LET nz == \E i \in Pasos : UEval(i) # 0
    IN  /\ tipo = "Dosis única" =>
             ~nz /\ Fmt2(y0[1]) = 1000 /\ Fmt2(y0[2]) = 200
        /\ tipo # "Dosis única" => nz /\ y0 = <<0, 0>>

C3_Testigo ==
  pc = "sol" /\ tipo = "Consumo lineal" /\ y0 = <<0, 0>> /\ UEval(NGrid - 1) > 0

\* C4: a chart or a final value is rendered only from a trajectory whose
\* integration succeeded: a failed integration ends the request.
C4_FalloEsTerminal ==
  \A j \in DOMAIN page :
    /\ page[j].kind \in {"fig", "final"} => istate[1] > 0
    /\ page[j].kind = "fig2" => istate[2] > 0 /\ istate[3] > 0

\* C5: two integration calls of a run with the same rate constants, input,
\* initial state and grid return the same trajectory, whatever ran before.
MismosArgs(k, al, be, uf, yi, p, ufc, yc) ==
  k = p.ke /\ al = p.alpha /\ be = p.beta /\ uf = ufc /\ yi = yc
Cc(tr, i) == tr[i][1]
Tc(tr, i) == tr[i][2]

\* the resolution of one solver step: a rate g (times RateDen) moves the state
\* by less than half a lattice unit
BajoResolucion(g) == 2 * Abs(g) * t_max <= RateDen * (NGrid - 1)

\* tr rises toward the level where k * C = RateDen * u without passing it,
\* and keeps moving while the rate is above the resolution
SubeHacia(tr, col, k, lim) ==
  \A i \in Pasos :
    /\ tr[i][col] <= tr[i + 1][col]
    /\ k * tr[i + 1][col] <= lim
    /\ tr[i + 1][col] = tr[i][col] => BajoResolucion(lim - k * tr[i][col])

PuntoFijoPropio(tr, p) ==
  LET uR == Apply(u_comparacion, 0, 1)
  IN  /\ SubeHacia(tr, 1, p.ke, RateDen * uR)
      /\ \A i \in Pasos : Tc(tr, i) <= Tc(tr, i + 1) /\ p.beta * Tc(tr, i + 1) <= p.alpha * uR

====
